---- MODULE Spec2Model ----
(***************************************************************************)
(* FacebookGraph (facebook_connections.py): an undirected friendship graph *)
(* (networkx Graph) plus a nested dict of probabilistic links, with the    *)
(* queries get_mutual_friends, find_connection_path, get_friend_count,     *)
(* get_friends_of_friends and get_probability.                             *)
(*                                                                         *)
(* Probabilities are written in tenths (7 is 0.7, 15 is 1.5, -5 is -0.5).  *)
(***************************************************************************)
EXTENDS Integers, Sequences, FiniteSets, TLC

\* ------------------------------------------------------------------ bounds
NumUsers == 5
MaxEdges == 4
MaxDepth == 3
MaxProbEntries == 2
MaxMixedCalls == 2

UserNames == <<"Alice", "Bob", "Charlie", "David", "Eve", "Frank", "George", "Harry">>
Users == {UserNames[i] : i \in 1..NumUsers}
Depths == 0..MaxDepth
ProbValues == {-5, 7, 15}

\* ------------------------------------------------------------------- state
VARIABLES
    graph,        \* self.graph: known vertex -> set of neighbours
    prob_graph,   \* self.prob_graph: user -> (user -> probability)
    pc,           \* "idle": the caller is about to call; "while", "for": inside
                  \* find_connection_path; "returned": a call has just ended
    start, end, max_depth,   \* arguments of the running find_connection_path
    queue, visited,          \* its deque of (node, path) and its visited set
    node, path,              \* the pair popped last
    todo,                    \* neighbours of node the for loop has not yielded yet
    ret,          \* the current / most recent call and how it ended
    last_write    \* history: unordered pair -> the latest add_probabilistic_connection on it

locals == <<start, end, max_depth, queue, visited, node, path, todo>>
vars == <<graph, prob_graph, pc, start, end, max_depth, queue, visited, node, path, todo, ret, last_write>>

EmptyDict == [x \in {} |-> 0]
NoUser == ""

Returned(op, args, val) == [op |-> op, args |-> args, outcome |-> "value", val |-> val]
ReturnedNone(op, args) == [op |-> op, args |-> args, outcome |-> "None", val |-> 0]
\* variant of Raised: the call returns None where it should raise
RaisedAsNone(op, args, err) == [op |-> op, args |-> args, outcome |-> "None", val |-> 0]

\* raise ValueError(...)
Raised(op, args, err) == [op |-> op, args |-> args, outcome |-> err, val |-> 0]
NoCall == [op |-> "none", args |-> <<>>, outcome |-> "None", val |-> 0]
Running(op, args) == [op |-> op, args |-> args, outcome |-> "running", val |-> 0]

\* -------------------------------------------------- networkx Graph, as used
\* `user in self.graph`
HasNode(G, n) == n \in DOMAIN G

\* self.graph.neighbors(n): the keys of the adjacency dict of n
neighbors(G, n) == G[n]

\* self.graph.degree(n): a self-loop counts twice
degree(G, n) == Cardinality(G[n]) + (IF n \in G[n] THEN 1 ELSE 0)

\* variant of add_edge: only v is put in the adjacency of u
add_edge_one_way(G, u, v) ==
    [x \in DOMAIN G \cup {u, v} |->
        IF x = u THEN (IF x \in DOMAIN G THEN G[x] ELSE {}) \cup {v}
        ELSE IF x \in DOMAIN G THEN G[x] ELSE {}]

\* self.graph.add_edge(u, v): both vertices become known, each is put in the
\* other's adjacency
add_edge(G, u, v) ==
    [x \in DOMAIN G \cup {u, v} |->
        LET old == IF x \in DOMAIN G THEN G[x] ELSE {}
        IN  old \cup (IF x = u THEN {v} ELSE {}) \cup (IF x = v THEN {u} ELSE {})]

\* G.edges: the unordered pairs (a self-loop is the pair {x})
EdgeSet(G) == UNION {{{x, y} : y \in G[x]} : x \in DOMAIN G}
NumEdges(G) == Cardinality(EdgeSet(G))

\* ---------------------------------------------------------------- __init__
Init ==
    /\ graph = EmptyDict
    /\ prob_graph = EmptyDict
    /\ pc = "idle"
    /\ start = NoUser /\ end = NoUser /\ max_depth = 0
    /\ queue = <<>> /\ visited = {}
    /\ node = NoUser /\ path = <<>> /\ todo = {}
    /\ ret = NoCall
    /\ last_write = EmptyDict

\* ---------------------------------------------------------- add_connection
add_connection(user1, user2) ==
    /\ pc = "idle"
    /\ graph' = add_edge(graph, user1, user2)
    /\ ret' = ReturnedNone("add_connection", <<user1, user2>>)
    /\ pc' = "returned"
    /\ UNCHANGED <<prob_graph, locals, last_write>>

\* ------------------------------------------------------ get_mutual_friends
\* `user1 not in self.graph or user2 not in self.graph`
AnyUnknown(G, user1, user2) == ~HasNode(G, user1) \/ ~HasNode(G, user2)

get_mutual_friends(user1, user2) ==
    /\ pc = "idle"
    /\ ret' = IF AnyUnknown(graph, user1, user2)
              THEN Raised("get_mutual_friends", <<user1, user2>>, "ValueError")
              ELSE Returned("get_mutual_friends", <<user1, user2>>,
                            neighbors(graph, user1) \cap neighbors(graph, user2))
    /\ pc' = "returned"
    /\ UNCHANGED <<graph, prob_graph, locals, last_write>>

\* -------------------------------------------------------- get_friend_count
get_friend_count(user) ==
    /\ pc = "idle"
    /\ ret' = IF ~HasNode(graph, user)
              THEN Raised("get_friend_count", <<user>>, "ValueError")
              ELSE Returned("get_friend_count", <<user>>, degree(graph, user))
    /\ pc' = "returned"
    /\ UNCHANGED <<graph, prob_graph, locals, last_write>>

\* -------------------------------------------------- get_friends_of_friends
\* variant of FriendsOfFriends: the discard(user) of line 68 left out
FriendsOfFriendsKeepUser(G, user) ==
    LET friends == neighbors(G, user)
    IN  UNION {neighbors(G, friend) : friend \in friends} \ friends

\* lines 64-69: union of the friends' neighbours, discard(user), minus friends
FriendsOfFriends(G, user) ==
    LET friends == neighbors(G, user)
        friends_of_friends == UNION {neighbors(G, friend) : friend \in friends}
        discarded == friends_of_friends \ {user}
    IN  discarded \ friends

get_friends_of_friends(user) ==
    /\ pc = "idle"
    /\ ret' = IF ~HasNode(graph, user)
              THEN Raised("get_friends_of_friends", <<user>>, "ValueError")
              ELSE Returned("get_friends_of_friends", <<user>>, FriendsOfFriends(graph, user))
    /\ pc' = "returned"
    /\ UNCHANGED <<graph, prob_graph, locals, last_write>>

\* ---------------------------------------------------- find_connection_path
\* variant of DepthExceeded: the test let one more edge through
DepthExceededOffByOne(p, d) == Len(p) > d + 1

\* `len(path) > max_depth`
DepthExceeded(p, d) == Len(p) > d

\* variant of Extend: the vertex is not appended
ExtendDropped(p, n) == p

\* `path + [neighbor]`, `path + [end]`
Extend(p, n) == Append(p, n)

\* variant of PopLeft: queue.pop(), the deque used as a stack
PopRight(q) == [item |-> q[Len(q)], rest |-> SubSeq(q, 1, Len(q) - 1)]

\* queue.popleft()
PopLeft(q) == [item |-> Head(q), rest |-> Tail(q)]

ClearLocals ==
    /\ start' = NoUser /\ end' = NoUser /\ max_depth' = 0
    /\ queue' = <<>> /\ visited' = {}
    /\ node' = NoUser /\ path' = <<>> /\ todo' = {}

FindArgs == <<start, end, max_depth>>

\* lines 30-36: the membership check, then the queue and the visited set
find_connection_path(s, e, d) ==
    /\ pc = "idle"
    /\ IF AnyUnknown(graph, s, e)
       THEN /\ ret' = Raised("find_connection_path", <<s, e, d>>, "ValueError")
            /\ pc' = "returned"
            /\ UNCHANGED locals
       ELSE /\ start' = s /\ end' = e /\ max_depth' = d
            /\ queue' = <<[node |-> s, path |-> <<s>>]>>
            /\ visited' = {s}
            /\ pc' = "while"
            /\ ret' = Running("find_connection_path", <<s, e, d>>)
            /\ UNCHANGED <<node, path, todo>>
    /\ UNCHANGED <<graph, prob_graph, last_write>>

\* lines 38-42 and 52: the loop test, popleft, the depth test
while_step ==
    /\ pc = "while"
    /\ IF queue = <<>>
       THEN /\ ret' = ReturnedNone("find_connection_path", FindArgs)
            /\ pc' = "returned"
            /\ ClearLocals
       ELSE LET popped == PopLeft(queue)
            IN  IF DepthExceeded(popped.item.path, max_depth)
                THEN /\ ret' = ReturnedNone("find_connection_path", FindArgs)
                     /\ pc' = "returned"
                     /\ ClearLocals
                ELSE /\ node' = popped.item.node
                     /\ path' = popped.item.path
                     /\ queue' = popped.rest
                     /\ todo' = neighbors(graph, popped.item.node)
                     /\ pc' = "for"
                     /\ UNCHANGED <<start, end, max_depth, visited, ret>>
    /\ UNCHANGED <<graph, prob_graph, last_write>>

\* lines 44-50: one iteration of the for loop, the set's iteration order being
\* any order; the loop's end goes back to the while test
for_step ==
    /\ pc = "for"
    /\ IF todo = {}
       THEN /\ pc' = "while"
            /\ UNCHANGED <<locals, ret>>
       ELSE \E neighbor \in todo :
              IF neighbor = end
              THEN /\ ret' = Returned("find_connection_path", FindArgs, Extend(path, end))
                   /\ pc' = "returned"
                   /\ ClearLocals
              ELSE /\ todo' = todo \ {neighbor}
                   /\ IF neighbor \notin visited
                      THEN /\ visited' = visited \cup {neighbor}
                           /\ queue' = Append(queue, [node |-> neighbor, path |-> Extend(path, neighbor)])
                      ELSE UNCHANGED <<visited, queue>>
                   /\ UNCHANGED <<pc, start, end, max_depth, node, path, ret>>
    /\ UNCHANGED <<graph, prob_graph, last_write>>

\* ------------------------------------------ add_probabilistic_connection
Put(d, k, val) == [x \in DOMAIN d \cup {k} |-> IF x = k THEN val ELSE d[x]]
SetDefault(d, k) == IF k \in DOMAIN d THEN d ELSE Put(d, k, EmptyDict)

\* variant of SetProb: an entry already present is kept
PutIfAbsent(d, k, val) == IF k \in DOMAIN d THEN d ELSE Put(d, k, val)
SetProbKeepFirst(pg, user1, user2, probability) ==
    LET d1 == SetDefault(pg, user1)
        d2 == SetDefault(d1, user2)
        d3 == Put(d2, user1, PutIfAbsent(d2[user1], user2, probability))
    IN  Put(d3, user2, PutIfAbsent(d3[user2], user1, probability))

\* lines 17-22
SetProb(pg, user1, user2, probability) ==
    LET d1 == SetDefault(pg, user1)
        d2 == SetDefault(d1, user2)
        d3 == Put(d2, user1, Put(d2[user1], user2, probability))
    IN  Put(d3, user2, Put(d3[user2], user1, probability))

NumProbEntries(pg) == Cardinality(UNION {{{x, y} : y \in DOMAIN pg[x]} : x \in DOMAIN pg})

add_probabilistic_connection(user1, user2, probability) ==
    /\ pc = "idle"
    /\ prob_graph' = SetProb(prob_graph, user1, user2, probability)
    /\ last_write' = Put(last_write, {user1, user2},
                          [probability |-> probability,
                           by |-> <<user1, user2>>])
    /\ ret' = ReturnedNone("add_probabilistic_connection", <<user1, user2, probability>>)
    /\ pc' = "returned"
    /\ UNCHANGED <<graph, locals>>

\* --------------------------------------------------------- get_probability
\* self.prob_graph.get(user1, {}).get(user2, 0)
Lookup(pg, user1, user2) ==
    LET inner == IF user1 \in DOMAIN pg THEN pg[user1] ELSE EmptyDict
    IN  IF user2 \in DOMAIN inner THEN inner[user2] ELSE 0

get_probability(user1, user2) ==
    /\ pc = "idle"
    /\ ret' = Returned("get_probability", <<user1, user2>>, Lookup(prob_graph, user1, user2))
    /\ pc' = "returned"
    /\ UNCHANGED <<graph, prob_graph, locals, last_write>>

\* ------------------------------------------------------------- the caller
\* lines 120-183: the caller takes what the call returned or raised (assigns it,
\* prints it) and goes on to its next call
caller_resumes ==
    /\ pc = "returned"
    /\ pc' = "idle"
    /\ ret' = NoCall
    /\ UNCHANGED <<graph, prob_graph, locals, last_write>>

\* ---------------------------------------------------------- specifications
\* The caller names users in the order of UserNames: a call may name the users
\* named so far and, as new ones, the next one or two of UserNames.  Users are
\* opaque to the code, which only tests them for equality, so every run is one
\* of these up to renaming.
Seen == DOMAIN graph \cup DOMAIN prob_graph
FirstUsers(n) == {UserNames[i] : i \in 1..(IF n < NumUsers THEN n ELSE NumUsers)}
InOrder(user1, user2) ==
    LET k == Cardinality(Seen)
    IN  /\ user1 \in FirstUsers(k + 1)
        /\ user2 \in FirstUsers(IF user1 \in Seen THEN k + 1 ELSE k + 2)

AddConnectionUpTo(limit) ==
    /\ pc = "idle"
    /\ \E user1 \in Users, user2 \in Users :
        /\ InOrder(user1, user2)
        /\ NumEdges(add_edge(graph, user1, user2)) <= limit
        /\ add_connection(user1, user2)

AddProbabilisticUpTo(limit) ==
    /\ pc = "idle"
    /\ \E user1 \in Users, user2 \in Users, probability \in ProbValues :
        /\ InOrder(user1, user2)
        /\ NumProbEntries(SetProb(prob_graph, user1, user2, probability)) <= limit
        /\ add_probabilistic_connection(user1, user2, probability)

MutualFriends == pc = "idle" /\ \E user1 \in Users, user2 \in Users : get_mutual_friends(user1, user2)
FriendCount == pc = "idle" /\ \E user \in Users : get_friend_count(user)
FriendsOfFriendsCall == pc = "idle" /\ \E user \in Users : get_friends_of_friends(user)
FindPath == pc = "idle" /\ \E s \in Users, e \in Users, d \in Depths : find_connection_path(s, e, d)
GetProbability == pc = "idle" /\ \E user1 \in Users, user2 \in Users : get_probability(user1, user2)

AddConnection == AddConnectionUpTo(MaxEdges)
AddProbabilistic == AddProbabilisticUpTo(MaxProbEntries)
\* with both stores, MaxMixedCalls bounds the edges and the entries together
AddConnectionMixed == AddConnectionUpTo(MaxMixedCalls - NumProbEntries(prob_graph))
AddProbabilisticMixed == AddProbabilisticUpTo(MaxMixedCalls - NumEdges(graph))

\* the friendship graph and its queries
NextGraph ==
    \/ AddConnection
    \/ MutualFriends
    \/ FriendCount
    \/ FriendsOfFriendsCall
    \/ FindPath
    \/ while_step
    \/ for_step
    \/ caller_resumes

SpecGraph == Init /\ [][NextGraph]_vars

\* the probability table
NextProb ==
    \/ AddProbabilistic
    \/ GetProbability
    \/ caller_resumes

SpecProb == Init /\ [][NextProb]_vars

\* both stores, every operation
Next ==
    \/ AddConnectionMixed
    \/ AddProbabilisticMixed
    \/ MutualFriends
    \/ FriendCount
    \/ FriendsOfFriendsCall
    \/ FindPath
    \/ while_step
    \/ for_step
    \/ GetProbability
    \/ caller_resumes

Spec == Init /\ [][Next]_vars

\* ------------------------------------------------------------ properties
RECURSIVE ReachWithin(_, _, _)
\* the vertices some walk of at most k edges from s ends at
ReachWithin(G, s, k) ==
    IF k = 0 THEN {s}
    ELSE LET r == ReachWithin(G, s, k - 1) IN r \cup UNION {G[x] : x \in r}

\* the shortest-path distance from s to e, e reachable from s
Distance(G, s, e) == CHOOSE k \in 0..Cardinality(DOMAIN G) : e \in ReachWithin(G, s, k) /\ \A j \in 0..(k - 1) : e \notin ReachWithin(G, s, j)
Reachable(G, s, e) == e \in ReachWithin(G, s, Cardinality(DOMAIN G))

QueryOps == {"get_mutual_friends", "find_connection_path", "get_friend_count", "get_friends_of_friends"}
Finished(op) == ret.op = op /\ ret.outcome # "running"
Found == ret.op = "find_connection_path" /\ ret.outcome = "value"
Completed == ret.op = "find_connection_path" /\ ret.outcome \in {"value", "None"}
\* the vertex arguments of the call in ret
VertexArgs == IF ret.op = "find_connection_path" THEN {ret.args[1], ret.args[2]} ELSE {ret.args[i] : i \in 1..Len(ret.args)}

\* C1: a path find_connection_path returns has at most max_depth edges, and when
\* no walk of at most max_depth edges joins start to end the result is None.
PathDepthBound ==
    /\ Found => Len(ret.val) - 1 <= ret.args[3]
    /\ (Completed /\ ret.args[2] \notin ReachWithin(graph, ret.args[1], ret.args[3])) => ret.outcome = "None"

\* a returned path that uses the whole depth budget of 3 edges
PathAtDepthBound == Found /\ ret.args[3] = 3 /\ Len(ret.val) = 4

\* C2: a returned path begins with start, ends with end, and every consecutive
\* pair of it is an edge of the graph.
PathValid ==
    Found =>
        /\ ret.val[1] = ret.args[1]
        /\ ret.val[Len(ret.val)] = ret.args[2]
        /\ \A i \in 1..(Len(ret.val) - 1) : {ret.val[i], ret.val[i + 1]} \in EdgeSet(graph)

\* a returned path of two edges between distinct users
TwoEdgePathReturned == Found /\ Len(ret.val) = 3 /\ ret.args[1] # ret.args[2]

\* C3 (state part): a finished graph query with an unknown vertex argument ended
\* in ValueError, and find_connection_path on known endpoints that are not
\* within max_depth of each other ended in None.
UnknownVertexOutcome ==
    /\ \A op \in QueryOps :
          (Finished(op) /\ \E a \in VertexArgs : ~HasNode(graph, a)) => ret.outcome = "ValueError"
    /\ (/\ Finished("find_connection_path")
        /\ \A a \in VertexArgs : HasNode(graph, a)
        /\ ret.args[2] \notin ReachWithin(graph, ret.args[1], ret.args[3])) => ret.outcome = "None"

\* C3: every graph query raises ValueError on an unknown vertex, a vertex known
\* only to the probability table included, and no step of a query changes the
\* graph or the probability table; known endpoints out of reach give None.
UnknownVertexContract ==
    /\ []UnknownVertexOutcome
    /\ [][ret'.op \in QueryOps => (graph' = graph /\ prob_graph' = prob_graph)]_vars

\* a query raised on a vertex that has a probabilistic entry and no friendship,
\* the graph holding other vertices
RaisedOnProbabilisticOnlyVertex ==
    /\ ret.op = "get_friends_of_friends"
    /\ ret.outcome = "ValueError"
    /\ ret.args[1] \in DOMAIN prob_graph
    /\ ~HasNode(graph, ret.args[1])
    /\ DOMAIN graph # {}

\* C4: the adjacency relation is symmetric.
AdjacencySymmetric ==
    \A u \in Users, v \in Users :
        (HasNode(graph, u) /\ v \in neighbors(graph, u)) <=> (HasNode(graph, v) /\ u \in neighbors(graph, v))

\* add_connection has built three edges or more, a self-loop among them
ThreeEdgesWithSelfLoop ==
    /\ ret.op = "add_connection"
    /\ NumEdges(graph) >= 3
    /\ \E u \in DOMAIN graph : u \in graph[u]

\* C5: get_friends_of_friends(u) is the union of the neighbour sets of u's
\* neighbours, minus u's neighbours, minus u; it holds neither u nor a neighbour.
FriendsOfFriendsExact ==
    (ret.op = "get_friends_of_friends" /\ ret.outcome = "value") =>
        LET u == ret.args[1]
        IN  /\ ret.val = ((UNION {graph[f] : f \in graph[u]}) \ graph[u]) \ {u}
            /\ u \notin ret.val
            /\ ret.val \cap graph[u] = {}

\* a non-empty answer for a user who has no self-loop
FriendsOfFriendsNonEmpty ==
    /\ ret.op = "get_friends_of_friends"
    /\ ret.outcome = "value"
    /\ ret.val # {}
    /\ ret.args[1] \notin graph[ret.args[1]]

\* C6: get_probability(u, v) and get_probability(v, u) both give the probability
\* of the latest add_probabilistic_connection on the unordered pair {u, v}.
ProbabilityLastWriteWins ==
    /\ \A u \in Users, v \in Users :
          {u, v} \in DOMAIN last_write =>
              /\ Lookup(prob_graph, u, v) = last_write[{u, v}].probability
              /\ Lookup(prob_graph, v, u) = last_write[{u, v}].probability
    /\ (ret.op = "get_probability" /\ {ret.args[1], ret.args[2]} \in DOMAIN last_write) =>
          ret.val = last_write[{ret.args[1], ret.args[2]}].probability

\* get_probability(u, v) answered for a pair whose latest write was made in the
\* order (v, u), a second pair being set too
ReversedPairRead ==
    /\ ret.op = "get_probability"
    /\ ret.args[1] # ret.args[2]
    /\ {ret.args[1], ret.args[2]} \in DOMAIN last_write
    /\ last_write[{ret.args[1], ret.args[2]}].by = <<ret.args[2], ret.args[1]>>
    /\ ret.val = 7
    /\ Cardinality(DOMAIN last_write) = 2

\* C7: get_probability returns a value in [0,1], exactly 0 for a pair never set,
\* and a call with a probability outside [0,1] is rejected with
\* InvalidProbability.
ProbabilityInRange ==
    /\ (ret.op = "get_probability") =>
          (/\ ret.val >= 0 /\ ret.val <= 10
           /\ ({ret.args[1], ret.args[2]} \notin DOMAIN last_write => ret.val = 0))
    /\ (ret.op = "add_probabilistic_connection" /\ (ret.args[3] < 0 \/ ret.args[3] > 10)) =>
          ret.outcome = "InvalidProbability"

\* C8: get_friend_count(v) is the number of elements of v's neighbour set.
FriendCountIsNeighborCount ==
    (ret.op = "get_friend_count" /\ ret.outcome = "value") =>
        ret.val = Cardinality(neighbors(graph, ret.args[1]))

\* C9: find_connection_path(v, v, 0) on a known v returns the path [v].
TrivialPathAtDepthZero ==
    (Completed /\ ret.args[1] = ret.args[2] /\ ret.args[3] = 0) =>
        (ret.outcome = "value" /\ ret.val = <<ret.args[1]>>)

\* C10: for distinct known start and end and max_depth >= 1, a path is returned
\* exactly when the distance from start to end is at most max_depth; the path
\* returned has that distance as its number of edges and repeats no vertex.
ShortestPathFound ==
    (Completed /\ ret.args[1] # ret.args[2] /\ ret.args[3] >= 1) =>
        LET s == ret.args[1]
            e == ret.args[2]
            d == ret.args[3]
        IN  /\ (ret.outcome = "value") <=> (Reachable(graph, s, e) /\ Distance(graph, s, e) <= d)
            /\ (ret.outcome = "value") =>
                  (/\ Len(ret.val) - 1 = Distance(graph, s, e)
                   /\ \A i \in 1..Len(ret.val), j \in 1..Len(ret.val) : (ret.val[i] = ret.val[j]) => (i = j))

\* a two-edge path returned where two shortest paths exist, so that the one
\* returned depends on the order the neighbours are enumerated in
ShortestPathWithTie ==
    /\ Found
    /\ ret.args[1] # ret.args[2]
    /\ Len(ret.val) = 3
    /\ Cardinality({x \in graph[ret.args[1]] : ret.args[2] \in graph[x]}) >= 2

====
